---- MODULE Spec2Model ----
(***************************************************************************)
(* Model of app.py, the Streamlit "Retail Sales Forecaster".               *)
(*                                                                         *)
(* A Streamlit process executes the whole script top to bottom once per    *)
(* user interaction (a "run"), in a fresh namespace.  What survives from   *)
(* one run to the next is the process-wide cache of the two decorated      *)
(* loaders and the session's widget values.  One action of this model is   *)
(* one user interaction followed by the complete script run it triggers.   *)
(*                                                                         *)
(* Real-valued inputs are represented in integer units of their slider     *)
(* step (temperature, CPI and unemployment in tenths, fuel price in        *)
(* cents, markdowns in dollars); the script only moves them around.        *)
(***************************************************************************)
EXTENDS Integers, Sequences, FiniteSets, TLC

\* Number of script runs explored per process.
MaxRuns == 3

(***************************************************************************)
(* Environment: the two files the loaders read.                            *)
(***************************************************************************)
\* "absent": open raises FileNotFoundError.  "corrupt": the file exists but
\* joblib.load / pd.read_csv raises something else (unpickling error,
\* parser error, empty file, permission denied).  "ok": the read succeeds.
FileStates == {"absent", "corrupt", "ok"}

\* Contents the CSV may have when it parses.  Rows keep file order.
Tables ==
  { <<>>,
    << [Store |-> 1, Type |-> "A", Size |-> 151315],
       [Store |-> 2, Type |-> "B", Size |-> 202307],
       [Store |-> 3, Type |-> "C", Size |-> 37392] >>,
    << [Store |-> 2, Type |-> "a", Size |-> 202307],
       [Store |-> 0, Type |-> "B", Size |-> 39690],
       [Store |-> 1, Type |-> "D", Size |-> 151315] >>,
    << [Store |-> 5, Type |-> " A", Size |-> 34875],
       [Store |-> 4, Type |-> "B", Size |-> 205863],
       [Store |-> 4, Type |-> "C", Size |-> 150000] >> }

(***************************************************************************)
(* Values.                                                                 *)
(***************************************************************************)
\* Python's None where an integer is expected: st.selectbox returns None
\* when it has no options.
None == -1

\* A DataFrame handle or None.
NoneFrame == [loaded |-> FALSE, rows |-> <<>>]
Frame(rows) == [loaded |-> TRUE, rows |-> rows]

\* Python truthiness of a selectbox value (line 56, "if store:").
Truthy(v) == v # None /\ v # 0

(***************************************************************************)
(* Widget declarations: defaults, and the values a user is offered here.   *)
(***************************************************************************)
StoreInputMin == 1
StoreInputMax == 45
StoreInputDefault == 1
StoreInputChoices == {StoreInputMin, StoreInputMax}

DeptMin == 1
DeptMax == 99
DeptDefault == 1
DeptChoices == {DeptMin, DeptMax}

DateDefault == [year |-> 2022, month |-> 12, day |-> 2]
\* Line 69 passes no min_value or max_value: st.date_input then offers the
\* dates from ten years before value to ten years after it,
\* 2012-12-02 .. 2032-12-02.
DateChoices == {DateDefault, [year |-> 2014, month |-> 2, day |-> 11]}

\* st.selectbox(..., [True, False]) starts on its first option.
HolidayOptions == <<TRUE, FALSE>>

TemperatureMin == -100
TemperatureDefault == 650
FuelPriceMin == 200
FuelPriceDefault == 350
CpiMin == 1200
CpiDefault == 1950
UnemploymentMin == 30
UnemploymentDefault == 75
MarkdownDefault == 0
MarkdownStep == 100

SliderNames == {"temperature", "fuel_price", "cpi", "unemployment"}
SliderChoices(name) ==
  CASE name = "temperature"  -> {TemperatureMin, TemperatureDefault}
    [] name = "fuel_price"   -> {FuelPriceMin, FuelPriceDefault}
    [] name = "cpi"          -> {CpiMin, CpiDefault}
    [] name = "unemployment" -> {UnemploymentMin, UnemploymentDefault}

MarkdownNames == <<"markdown1", "markdown2", "markdown3", "markdown4", "markdown5">>
\* Markdown k is offered its default and k steps of 100, so that no two
\* markdown fields can be told apart only when all are left at 0.
MarkdownChoices(k) == {MarkdownDefault, k * MarkdownStep}

\* Session widget state before the user touched anything.  store = None
\* means "no selection made yet": the widget shows its default.
WidgetDefaults ==
  [ store |-> None, dept |-> DeptDefault, date |-> DateDefault,
    is_holiday |-> HolidayOptions[1],
    temperature |-> TemperatureDefault, fuel_price |-> FuelPriceDefault,
    cpi |-> CpiDefault, unemployment |-> UnemploymentDefault,
    markdown1 |-> MarkdownDefault, markdown2 |-> MarkdownDefault,
    markdown3 |-> MarkdownDefault, markdown4 |-> MarkdownDefault,
    markdown5 |-> MarkdownDefault ]

VARIABLES
  modelFile,     \* state of sales_forecast_model.joblib on disk
  storeFile,     \* state of 'stores data-set.csv' on disk
  tableOnDisk,   \* rows of the CSV when it parses
  modelCache,    \* st.cache_resource entry of load_model: "unset", "None", "model"
  dataCache,     \* st.cache_data entry of load_store_data: [set, value]
  modelLoads,    \* times joblib.load was attempted
  dataLoads,     \* times pd.read_csv was attempted
  widgets,       \* session widget values
  ns,            \* the script's namespace at the end of the last run
  branch,        \* branch of lines 51-64 taken by the last run
  messages,      \* st.error messages shown by the last run
  fault,         \* uncaught exception that ended the last run, or "none"
  button,        \* whether the last run was triggered by the predict button
  input_df,      \* row the last run passed to model.predict, <<>> if none
  predictCalled, \* whether the last run invoked model.predict
  loadOutcome,   \* what each loader call of the last run did
  runs           \* script runs so far

vars == << modelFile, storeFile, tableOnDisk, modelCache, dataCache, modelLoads,
           dataLoads, widgets, ns, branch, messages, fault, button, input_df,
           predictCalled, loadOutcome, runs >>

(***************************************************************************)
(* Lines 15-33: the loaders.                                               *)
(***************************************************************************)
\* load_model's body: the value returned, the message shown, or the
\* exception that escapes.  Only FileNotFoundError is caught.
load_model(file) ==
  CASE file = "ok"      -> [raised |-> FALSE, value |-> "model", msgs |-> {}]
    [] file = "absent"  -> [raised |-> FALSE, value |-> "None",
                            msgs |-> {"model_not_found"}]
    [] file = "corrupt" -> [raised |-> TRUE, value |-> "None", msgs |-> {}]

load_store_data(file, rows) ==
  CASE file = "ok"      -> [raised |-> FALSE, value |-> Frame(rows), msgs |-> {}]
    [] file = "absent"  -> [raised |-> FALSE, value |-> NoneFrame,
                            msgs |-> {"store_data_not_found"}]
    [] file = "corrupt" -> [raised |-> TRUE, value |-> NoneFrame, msgs |-> {}]

\* The caching decorators: a stored entry is returned (its st.error call is
\* replayed) without running the body; on a miss the body runs and its
\* return value, None included, is stored.  An exception stores nothing.
cached_load_model(cache, file) ==
  IF cache # "unset"
  THEN [raised |-> FALSE, value |-> cache, cache |-> cache, attempts |-> 0,
        msgs |-> IF cache = "None" THEN {"model_not_found"} ELSE {},
        outcome |-> "hit"]
  ELSE LET r == load_model(file) IN
       [raised |-> r.raised, value |-> r.value,
        cache |-> IF r.raised THEN "unset" ELSE r.value,
        attempts |-> 1, msgs |-> r.msgs,
        outcome |-> IF r.raised THEN "raised"
                    ELSE IF r.value = "None" THEN "missing" ELSE "loaded"]

UnsetData == [set |-> FALSE, value |-> NoneFrame]

cached_load_store_data(cache, file, rows) ==
  IF cache.set
  THEN [raised |-> FALSE, value |-> cache.value, cache |-> cache, attempts |-> 0,
        msgs |-> IF cache.value.loaded THEN {} ELSE {"store_data_not_found"},
        outcome |-> "hit"]
  ELSE LET r == load_store_data(file, rows) IN
       [raised |-> r.raised, value |-> r.value,
        cache |-> IF r.raised THEN cache ELSE [set |-> TRUE, value |-> r.value],
        attempts |-> 1, msgs |-> r.msgs,
        outcome |-> IF r.raised THEN "raised"
                    ELSE IF r.value.loaded THEN "loaded" ELSE "missing"]

(***************************************************************************)
(* Lines 51-64: the store input and the lookup of the store's details.     *)
(***************************************************************************)
StoreValues(rows) == {rows[i].Store : i \in 1..Len(rows)}

\* sorted(stores_df['Store'].unique())
RECURSIVE SortedSeq(_)
SortedSeq(S) ==
  IF S = {} THEN <<>>
  ELSE LET m == CHOOSE x \in S : \A y \in S : x <= y
       IN <<m>> \o SortedSeq(S \ {m})

valid_stores(stores_df) == SortedSeq(StoreValues(stores_df.rows))

\* st.selectbox: the session's selection when it is one of the options,
\* else the first option; None when there are no options.
selectbox(options, chosen) ==
  IF Len(options) = 0 THEN None
  ELSE IF \E i \in 1..Len(options) : options[i] = chosen THEN chosen
  ELSE options[1]

\* st.number_input: the session's value, or value= before any entry.
number_input(chosen, default) == IF chosen = None THEN default ELSE chosen

\* Variant: .iloc[0] taken on the unfiltered table.
store_details_unfiltered(stores_df, store) == stores_df.rows[1]

\* stores_df[stores_df['Store'] == store].iloc[0]
store_details(stores_df, store) ==
  SelectSeq(stores_df.rows, LAMBDA r : r.Store = store)[1]

PlaceholderSize == 150000
PlaceholderType == "A"

\* The names lines 51-64 bind, and the branch taken.
StoreSection(stores_df, w) ==
  IF stores_df.loaded
  THEN LET store == selectbox(valid_stores(stores_df), w.store) IN
       IF Truthy(store)
       THEN LET d == store_details(stores_df, store) IN
            [branch |-> "lookup",
             bound |-> [store |-> store, store_size |-> d.Size,
                        store_type |-> d.Type]]
       ELSE [branch |-> "skipped", bound |-> [store |-> store]]
  ELSE [branch |-> "fallback",
        bound |-> [store |-> number_input(w.store, StoreInputDefault),
                   store_size |-> PlaceholderSize,
                   store_type |-> PlaceholderType]]

\* Lines 66-91: the remaining widgets bind their session values.
OtherInputs(w) ==
  [ dept |-> w.dept, date |-> w.date, is_holiday |-> w.is_holiday,
    temperature |-> w.temperature, fuel_price |-> w.fuel_price,
    cpi |-> w.cpi, unemployment |-> w.unemployment,
    markdown1 |-> w.markdown1, markdown2 |-> w.markdown2,
    markdown3 |-> w.markdown3, markdown4 |-> w.markdown4,
    markdown5 |-> w.markdown5 ]

(***************************************************************************)
(* Lines 96-131: the prediction trigger.                                   *)
(***************************************************************************)
\* Variant: "and" in place of "or" in the gate.
ResourcesMissingBoth(model, stores_df) == model = "None" /\ ~stores_df.loaded

\* Variant: the gate tests the model only.
ResourcesMissingModelOnly(model, stores_df) == model = "None"

\* Line 97.
ResourcesMissing(model, stores_df) == model = "None" \/ ~stores_df.loaded

\* Variant: the two sides of the conditional exchanged.
HolidayCodeInverted(is_holiday) == IF is_holiday THEN 0 ELSE 1

\* Line 103: 1 if is_holiday else 0
HolidayCode(is_holiday) == IF is_holiday THEN 1 ELSE 0

\* Variant: the day read in place of the month.
DateDay(date) == date.day

\* Line 107: date.month, date.year
DateMonth(date) == date.month
DateYear(date) == date.year

\* Variant: the label is matched ignoring case and padding.
TypeIndicatorNormalised(store_type, code) ==
  IF store_type \in {code, " " \o code} \/ (code = "A" /\ store_type = "a")
  THEN 1 ELSE 0

\* Lines 108-110: 1 if store_type == code else 0
TypeIndicator(store_type, code) == IF store_type = code THEN 1 ELSE 0

\* Lines 102-111.
input_data(n) ==
  [ Store |-> n.store, Dept |-> n.dept, IsHoliday |-> HolidayCode(n.is_holiday),
    Size |-> n.store_size, Temperature |-> n.temperature,
    Fuel_Price |-> n.fuel_price,
    MarkDown1 |-> n.markdown1, MarkDown2 |-> n.markdown2,
    MarkDown3 |-> n.markdown3, MarkDown4 |-> n.markdown4,
    MarkDown5 |-> n.markdown5, CPI |-> n.cpi,
    Unemployment |-> n.unemployment,
    Month |-> DateMonth(n.date), Year |-> DateYear(n.date),
    Type_A |-> TypeIndicator(n.store_type, "A"),
    Type_B |-> TypeIndicator(n.store_type, "B"),
    Type_C |-> TypeIndicator(n.store_type, "C") ]

\* Variant: Month and Year exchanged in the list.
column_order_swapped ==
  << "Store", "Dept", "IsHoliday", "Size", "Temperature", "Fuel_Price",
     "MarkDown1", "MarkDown2", "MarkDown3", "MarkDown4", "MarkDown5",
     "CPI", "Unemployment", "Year", "Month", "Type_A", "Type_B", "Type_C" >>

\* Lines 114-118.
column_order ==
  << "Store", "Dept", "IsHoliday", "Size", "Temperature", "Fuel_Price",
     "MarkDown1", "MarkDown2", "MarkDown3", "MarkDown4", "MarkDown5",
     "CPI", "Unemployment", "Month", "Year", "Type_A", "Type_B", "Type_C" >>

\* Line 119: pd.DataFrame([input_data])[column_order], as the row of values.
BuildRow(n) ==
  LET d == input_data(n) IN [i \in 1..Len(column_order) |-> d[column_order[i]]]

NoPrediction ==
  [messages |-> {}, fault |-> "none", input_df |-> <<>>, predictCalled |-> FALSE]

\* The body of "if st.button(...)" when the button was pressed.  The dict
\* literal of line 102 reads store_size and store_type: a name lines 51-64
\* left unbound raises NameError.
PredictSection(n) ==
  IF ResourcesMissing(n.model, n.stores_df)
  THEN [NoPrediction EXCEPT !.messages = {"cannot_predict"}]
  ELSE IF ~({"store_size", "store_type"} \subseteq DOMAIN n)
  THEN [NoPrediction EXCEPT !.fault = "NameError"]
  ELSE [NoPrediction EXCEPT !.input_df = BuildRow(n), !.predictCalled = TRUE]

(***************************************************************************)
(* One complete run of the script.                                         *)
(***************************************************************************)
Aborted(mc, dc, n, who, outcome, msgs) ==
  [ modelCache |-> mc, dataCache |-> dc, ns |-> n, branch |-> "none",
    messages |-> msgs, fault |-> who, input_df |-> <<>>,
    predictCalled |-> FALSE, loadOutcome |-> outcome ]

RunScript(mc, dc, mf, sf, rows, w, pressed) ==
  LET lm == cached_load_model(mc, mf) IN
  IF lm.raised
  THEN Aborted(lm.cache, dc, <<>>, "load_model",
               [model |-> lm.outcome, stores |-> "notcalled"], {})
  ELSE
  LET ld == cached_load_store_data(dc, sf, rows) IN
  IF ld.raised
  THEN Aborted(lm.cache, ld.cache, [model |-> lm.value], "load_store_data",
               [model |-> lm.outcome, stores |-> ld.outcome], lm.msgs)
  ELSE
  LET sec == StoreSection(ld.value, w)
      n   == [model |-> lm.value, stores_df |-> ld.value]
               @@ sec.bound @@ OtherInputs(w)
      p   == IF pressed THEN PredictSection(n) ELSE NoPrediction
  IN [ modelCache |-> lm.cache, dataCache |-> ld.cache, ns |-> n,
       branch |-> sec.branch,
       messages |-> lm.msgs \cup ld.msgs \cup p.messages,
       fault |-> p.fault, input_df |-> p.input_df,
       predictCalled |-> p.predictCalled,
       loadOutcome |-> [model |-> lm.outcome, stores |-> ld.outcome] ]

Attempts(outcome) == IF outcome \in {"hit", "notcalled"} THEN 0 ELSE 1

(***************************************************************************)
(* Initial state: the process has started, nothing has run yet.            *)
(***************************************************************************)
Init ==
  /\ modelFile \in FileStates
  /\ storeFile \in FileStates
  /\ tableOnDisk \in Tables
  /\ modelCache = "unset"
  /\ dataCache = UnsetData
  /\ modelLoads = 0
  /\ dataLoads = 0
  /\ widgets = WidgetDefaults
  /\ ns = <<>>
  /\ branch = "none"
  /\ messages = {}
  /\ fault = "none"
  /\ button = FALSE
  /\ input_df = <<>>
  /\ predictCalled = FALSE
  /\ loadOutcome = [model |-> "notcalled", stores |-> "notcalled"]
  /\ runs = 0

(***************************************************************************)
(* Actions: a user interaction and the run it triggers.                    *)
(***************************************************************************)
Run(w, pressed) ==
  /\ runs < MaxRuns
  /\ LET r == RunScript(modelCache, dataCache, modelFile, storeFile,
                        tableOnDisk, w, pressed) IN
     /\ modelCache' = r.modelCache
     /\ dataCache' = r.dataCache
     /\ modelLoads' = modelLoads + Attempts(r.loadOutcome.model)
     /\ dataLoads' = dataLoads + Attempts(r.loadOutcome.stores)
     /\ ns' = r.ns
     /\ branch' = r.branch
     /\ messages' = r.messages
     /\ fault' = r.fault
     /\ input_df' = r.input_df
     /\ predictCalled' = r.predictCalled
     /\ loadOutcome' = r.loadOutcome
  /\ widgets' = w
  /\ button' = pressed
  /\ runs' = runs + 1
  /\ UNCHANGED << modelFile, storeFile, tableOnDisk >>

\* The last run drew the form and the button: it got past lines 35-36.
Rendered == runs > 0 /\ fault \notin {"load_model", "load_store_data"}

\* Opening the page, or rerunning it with nothing changed.
Rerun == Run(widgets, FALSE)

\* Line 53: the selectbox offers the table's store numbers only.
SelectStore ==
  /\ Rendered /\ ns.stores_df.loaded
  /\ \E s \in StoreValues(ns.stores_df.rows) :
       s # ns.store /\ Run([widgets EXCEPT !.store = s], FALSE)

\* Line 62: without a table the store is a free number in 1..45.
EnterStore ==
  /\ Rendered /\ ~ns.stores_df.loaded
  /\ \E s \in StoreInputChoices :
       s # ns.store /\ Run([widgets EXCEPT !.store = s], FALSE)

SetDept ==
  /\ Rendered
  /\ \E v \in DeptChoices : v # widgets.dept /\ Run([widgets EXCEPT !.dept = v], FALSE)

SetDate ==
  /\ Rendered
  /\ \E v \in DateChoices : v # widgets.date /\ Run([widgets EXCEPT !.date = v], FALSE)

SetHoliday ==
  /\ Rendered
  /\ \E i \in 1..Len(HolidayOptions) :
       /\ HolidayOptions[i] # widgets.is_holiday
       /\ Run([widgets EXCEPT !.is_holiday = HolidayOptions[i]], FALSE)

SetSlider ==
  /\ Rendered
  /\ \E name \in SliderNames : \E v \in SliderChoices(name) :
       v # widgets[name] /\ Run([widgets EXCEPT ![name] = v], FALSE)

SetMarkdown ==
  /\ Rendered
  /\ \E k \in 1..Len(MarkdownNames) : \E v \in MarkdownChoices(k) :
       /\ v # widgets[MarkdownNames[k]]
       /\ Run([widgets EXCEPT ![MarkdownNames[k]] = v], FALSE)

\* Line 96: the button is pressed; the script reruns with it True.
PressPredict == Rendered /\ Run(widgets, TRUE)

\* The files are outside the process and may change between runs.
FileChange ==
  /\ \E m \in FileStates, s \in FileStates :
       /\ << m, s >> # << modelFile, storeFile >>
       /\ modelFile' = m
       /\ storeFile' = s
  /\ UNCHANGED << tableOnDisk, modelCache, dataCache, modelLoads, dataLoads,
                  widgets, ns, branch, messages, fault, button, input_df,
                  predictCalled, loadOutcome, runs >>

Next ==
  \/ Rerun
  \/ SelectStore
  \/ EnterStore
  \/ SetDept
  \/ SetDate
  \/ SetHoliday
  \/ SetSlider
  \/ SetMarkdown
  \/ PressPredict
  \/ FileChange

Spec == Init /\ [][Next]_vars

(***************************************************************************)
(* Properties.                                                             *)
(***************************************************************************)
Unavailable == ns.model = "None" \/ ~ns.stores_df.loaded

\* C1: when the predict trigger fires while the model or the reference
\* table is None, the gate's error is shown, no row is built and
\* model.predict is not invoked; model.predict is invoked only in a run in
\* which both resources are loaded.
C1_GateBlocksPrediction ==
  /\ (button /\ Unavailable) =>
       /\ "cannot_predict" \in messages
       /\ input_df = <<>>
       /\ ~predictCalled
  /\ predictCalled =>
       /\ ns.model = "model" /\ ns.stores_df.loaded
       /\ modelCache = "model" /\ dataCache.set /\ dataCache.value.loaded

\* Scenario C: the model is missing, the table is loaded, the button is pressed.
C1_Witness ==
  /\ button /\ ns.model = "None" /\ ns.stores_df.loaded
  /\ "cannot_predict" \in messages /\ ~predictCalled

\* C2: every failed load, the file absent or present but unreadable, ends
\* with None returned and the loader's error message shown, and with no
\* exception leaving the loader.
C2_LoadFailuresYieldNone ==
  /\ loadOutcome.model \in {"missing", "raised"} =>
       /\ fault # "load_model"
       /\ "model" \in DOMAIN ns /\ ns.model = "None"
       /\ "model_not_found" \in messages
  /\ loadOutcome.stores \in {"missing", "raised"} =>
       /\ fault # "load_store_data"
       /\ "stores_df" \in DOMAIN ns /\ ~ns.stores_df.loaded
       /\ "store_data_not_found" \in messages

\* C3: the row passed to model.predict has the 18 fields in the order
\* Store, Dept, IsHoliday, Size, Temperature, Fuel_Price, MarkDown1..5, CPI,
\* Unemployment, Month, Year, Type_A, Type_B, Type_C, each holding the value
\* of the input of that name.
C3_RowOrder ==
  predictCalled =>
    input_df =
      << ns.store, widgets.dept, IF widgets.is_holiday THEN 1 ELSE 0,
         ns.store_size, widgets.temperature, widgets.fuel_price,
         widgets.markdown1, widgets.markdown2, widgets.markdown3,
         widgets.markdown4, widgets.markdown5, widgets.cpi,
         widgets.unemployment, widgets.date.month, widgets.date.year,
         IF ns.store_type = "A" THEN 1 ELSE 0,
         IF ns.store_type = "B" THEN 1 ELSE 0,
         IF ns.store_type = "C" THEN 1 ELSE 0 >>

\* A prediction made after one input was moved off its default.
C3_Witness ==
  /\ predictCalled /\ Len(input_df) = 18
  /\ widgets # WidgetDefaults

\* C4: for every label at most one of Type_A, Type_B, Type_C is 1; the
\* indicator of a code is 1 exactly when the label is that code; any other
\* label, differently cased or padded ones included, gives three zeros and
\* no error.
C4_OneHot ==
  predictCalled =>
    LET a == input_df[16]  b == input_df[17]  c == input_df[18] IN
    /\ {a, b, c} \subseteq {0, 1}
    /\ a + b + c <= 1
    /\ (a = 1) <=> (ns.store_type = "A")
    /\ (b = 1) <=> (ns.store_type = "B")
    /\ (c = 1) <=> (ns.store_type = "C")
    /\ fault = "none"

\* A prediction for a store whose label is none of the three codes.
C4_Witness ==
  /\ predictCalled /\ ns.store_type \notin {"A", "B", "C"}
  /\ input_df[16] + input_df[17] + input_df[18] = 0

\* C5: with the table loaded, the Size and Type bound for the selected
\* store, and the Size sent to the model, are those of the table's row whose
\* Store equals the selection (the first such row in file order).
C5_LookupMatchesRow ==
  (Rendered /\ ns.stores_df.loaded /\ branch = "lookup") =>
    LET rows == ns.stores_df.rows IN
    \E i \in 1..Len(rows) :
      /\ rows[i].Store = ns.store
      /\ \A j \in 1..(i - 1) : rows[j].Store # ns.store
      /\ ns.store_size = rows[i].Size
      /\ ns.store_type = rows[i].Type
      /\ predictCalled => (input_df[1] = rows[i].Store /\ input_df[4] = rows[i].Size)

\* A prediction for a store the user selected that is not the table's first row.
C5_Witness ==
  /\ predictCalled /\ widgets.store = ns.store
  /\ ns.stores_df.rows[1].Store # ns.store

\* C6: with the table loaded, whatever its contents, the store in use is one
\* of the table's, its Size and Type are bound, and a prediction requested
\* with both resources loaded assembles its row.
C6_SelectionAlwaysResolves ==
  /\ (Rendered /\ ns.stores_df.loaded) =>
       /\ ns.store \in StoreValues(ns.stores_df.rows)
       /\ {"store_size", "store_type"} \subseteq DOMAIN ns
  /\ (button /\ ~Unavailable) => (fault = "none" /\ predictCalled)

\* C7: each resource is loaded at most once per process, with no retry.
C7_LoadedAtMostOnce == modelLoads <= 1 /\ dataLoads <= 1

\* C8: IsHoliday is 1 when the holiday input is true, 0 when it is false,
\* and nothing else.
C8_HolidayFlag ==
  predictCalled =>
    /\ input_df[3] \in {0, 1}
    /\ widgets.is_holiday => input_df[3] = 1
    /\ ~widgets.is_holiday => input_df[3] = 0

\* A prediction with the holiday input switched to False.
C8_Witness == predictCalled /\ ~widgets.is_holiday /\ input_df[3] = 0

\* C9: Month and Year are the month (1..12) and year of the date the
\* session holds at this request.
C9_MonthYear ==
  predictCalled =>
    /\ input_df[14] = widgets.date.month
    /\ input_df[14] \in 1..12
    /\ input_df[15] = widgets.date.year

\* A prediction after the date was changed from the one of the runs before.
C9_Witness ==
  /\ predictCalled /\ widgets.date # DateDefault
  /\ input_df[14] = 2 /\ input_df[15] = 2014

\* C10: the placeholders and the free store input are used exactly when the
\* table is unavailable; such a run never predicts; a run that predicts took
\* Store, Size and Type from the table.
C10_NoFallbackInPrediction ==
  /\ (branch = "fallback") <=> (Rendered /\ ~ns.stores_df.loaded)
  /\ branch = "fallback" =>
       /\ ~predictCalled
       /\ button => "cannot_predict" \in messages
  /\ predictCalled =>
       /\ branch = "lookup"
       /\ \E i \in 1..Len(tableOnDisk) :
            /\ input_df[1] = tableOnDisk[i].Store
            /\ input_df[4] = tableOnDisk[i].Size
            /\ input_df[16] = 1 <=> tableOnDisk[i].Type = "A"
            /\ input_df[17] = 1 <=> tableOnDisk[i].Type = "B"
            /\ input_df[18] = 1 <=> tableOnDisk[i].Type = "C"

\* The model is loaded, the table is not, the user typed store 45 and
\* pressed the button: the gate aborts.
C10_Witness ==
  /\ button /\ branch = "fallback" /\ ns.model = "model"
  /\ ns.store = StoreInputMax /\ ns.store_size = PlaceholderSize
  /\ "cannot_predict" \in messages /\ ~predictCalled

====
